---------------------------- MODULE Spec2Model ----------------------------
(***************************************************************************)
(* Reddit sentiment pipeline: the ingestion Lambda (ingest/main.py) and    *)
(* the processing Lambda (process/main.py), with the S3 bucket and the     *)
(* DynamoDB table they share.                                              *)
(*                                                                         *)
(* Python dicts are functions over their keys (a record is a function on   *)
(* strings), so a missing key is a field outside DOMAIN.  Python strings   *)
(* are strings; a character is a string of length 1.  Python floats that   *)
(* come from a division are exact fractions [n, d] in lowest terms.  The   *)
(* wall clock counts ticks, TicksPerSecond of them to a second, and        *)
(* int(timestamp) is the whole number of seconds.                          *)
(***************************************************************************)
EXTENDS Integers, Sequences, FiniteSets, TLC

(***************************************************************************)
(* Bounds of the model.                                                    *)
(***************************************************************************)
MaxTime == 2
TicksPerSecond == 2
MaxPostsPerSubreddit == 2
MaxSubreddits == 2
MaxRecords == 1
MaxBatch == 3
MaxIngestInvocations == 2
MaxEnrichInvocations == 2
MaxTitleWords == 2

(***************************************************************************)
(* Strings.                                                                *)
(***************************************************************************)
CharAt(s, i) == SubSeq(s, i, i)

UpperChars == "ABCDEFGHIJKLMNOPQRSTUVWXYZ"
LowerChars == "abcdefghijklmnopqrstuvwxyz"
DigitChars == "0123456789"

IndexIn(alphabet, c) ==
  IF \E i \in 1..Len(alphabet) : CharAt(alphabet, i) = c
  THEN CHOOSE i \in 1..Len(alphabet) : CharAt(alphabet, i) = c
  ELSE 0

LowerChar(c) ==
  LET i == IndexIn(UpperChars, c) IN IF i = 0 THEN c ELSE CharAt(LowerChars, i)

RECURSIVE lower(_)
lower(s) == IF s = "" THEN "" ELSE LowerChar(Head(s)) \o lower(Tail(s))

IsSpace(c) == c \in {" ", "\t", "\n", "\r"}

IsWordChar(c) ==
  \/ IndexIn(LowerChars, c) # 0
  \/ IndexIn(UpperChars, c) # 0
  \/ IndexIn(DigitChars, c) # 0
  \/ c = "_"

\* word in text
Contains(text, word) ==
  \E i \in 1..(Len(text) - Len(word) + 1) : SubSeq(text, i, i + Len(word) - 1) = word

\* key.startswith(prefix)
startswith(s, prefix) ==
  Len(s) >= Len(prefix) /\ SubSeq(s, 1, Len(prefix)) = prefix

\* text.split(): the maximal runs of non-whitespace characters, in order
RECURSIVE SplitRuns(_, _, _)
SplitRuns(s, cur, acc) ==
  IF s = "" THEN (IF cur = "" THEN acc ELSE Append(acc, cur))
  ELSE IF ~IsSpace(Head(s)) THEN SplitRuns(Tail(s), cur \o Head(s), acc)
  ELSE SplitRuns(Tail(s), "", IF cur = "" THEN acc ELSE Append(acc, cur))

split(text) == SplitRuns(text, "", <<>>)

\* re.findall(r'\b\w+\b', text): the maximal runs of word characters, in order
RECURSIVE WordRuns(_, _, _)
WordRuns(s, cur, acc) ==
  IF s = "" THEN (IF cur = "" THEN acc ELSE Append(acc, cur))
  ELSE IF IsWordChar(Head(s)) THEN WordRuns(Tail(s), cur \o Head(s), acc)
  ELSE WordRuns(Tail(s), "", IF cur = "" THEN acc ELSE Append(acc, cur))

findall_words(text) == WordRuns(text, "", <<>>)

(***************************************************************************)
(* Fractions: the value of a Python float computed by one division.        *)
(***************************************************************************)
Abs(n) == IF n < 0 THEN -n ELSE n

RECURSIVE GCD(_, _)
GCD(a, b) == IF b = 0 THEN a ELSE GCD(b, a % b)

Frac(n, d) == LET g == GCD(Abs(n), d) IN [n |-> n \div g, d |-> d \div g]
FracZero == [n |-> 0, d |-> 1]
FracLess(x, y) == x.n * y.d < y.n * x.d
FracAbs(x) == [n |-> Abs(x.n), d |-> x.d]
FracMin(x, y) == IF FracLess(y, x) THEN y ELSE x
FracMax(x, y) == IF FracLess(x, y) THEN y ELSE x

(***************************************************************************)
(* process/main.py: the derivations.                                       *)
(***************************************************************************)
positive_words ==
  <<"good", "great", "awesome", "excellent", "amazing", "love", "fantastic", "wonderful">>
negative_words ==
  <<"bad", "terrible", "awful", "hate", "horrible", "disgusting", "worst", "stupid">>

CountMatches(words, text) ==
  Cardinality({i \in 1..Len(words) : Contains(text, words[i])})

\* the score without the clamp
simple_sentiment_unclamped(text) ==
  LET text_lower == lower(text)
      positive_count == CountMatches(positive_words, text_lower)
      negative_count == CountMatches(negative_words, text_lower)
      total_words == Len(split(text))
  IN IF total_words = 0 THEN FracZero
     ELSE Frac(positive_count - negative_count, total_words)

simple_sentiment_analysis(text) ==
  LET text_lower == lower(text)
      positive_count == CountMatches(positive_words, text_lower)
      negative_count == CountMatches(negative_words, text_lower)
      total_words == Len(split(text))
  IN IF total_words = 0 THEN FracZero
     ELSE FracMin(FracMax(Frac(positive_count - negative_count, total_words),
                          Frac(-1, 1)),
                  Frac(1, 1))

\* raises KeyError when the blob has no title or no selftext
analyze_sentiment_raises(post_data) ==
  ~({"title", "selftext"} \subseteq DOMAIN post_data)

\* the thresholds taken inclusively: >= 0.1 and <= -0.1
analyze_sentiment_inclusive(post_data) ==
  LET text_to_analyze == post_data.title \o " " \o post_data.selftext
      sentiment_score == simple_sentiment_analysis(text_to_analyze)
      sentiment_category ==
        IF ~FracLess(sentiment_score, Frac(1, 10)) THEN "positive"
        ELSE IF ~FracLess(Frac(-1, 10), sentiment_score) THEN "negative"
        ELSE "neutral"
  IN [sentiment_score |-> sentiment_score,
      sentiment_category |-> sentiment_category,
      confidence |-> FracAbs(sentiment_score)]

analyze_sentiment(post_data) ==
  LET text_to_analyze == post_data.title \o " " \o post_data.selftext
      sentiment_score == simple_sentiment_analysis(text_to_analyze)
      sentiment_category ==
        IF FracLess(Frac(1, 10), sentiment_score) THEN "positive"
        ELSE IF FracLess(sentiment_score, Frac(-1, 10)) THEN "negative"
        ELSE "neutral"
  IN [sentiment_score |-> sentiment_score,
      sentiment_category |-> sentiment_category,
      confidence |-> FracAbs(sentiment_score)]

\* dict.get(key, default)
Get(dict, key, default) == IF key \in DOMAIN dict THEN dict[key] ELSE default

calculate_engagement_ratio(post_data) ==
  LET score == Get(post_data, "score", 0)
      num_comments == Get(post_data, "num_comments", 0)
  IN IF score <= 0 THEN FracZero ELSE Frac(num_comments, score)

common_words ==
  {"the", "a", "an", "and", "or", "but", "in", "on", "at", "to", "for", "of",
   "with", "by", "is", "are", "was", "were", "be", "been", "being", "have",
   "has", "had", "do", "does", "did", "will", "would", "could", "should",
   "this", "that", "these", "those"}

\* the distinct elements of a sequence in the order first met: the insertion
\* order of the keys of word_freq
RECURSIVE Distinct(_, _)
Distinct(seq, acc) ==
  IF seq = <<>> THEN acc
  ELSE Distinct(Tail(seq),
                IF \E i \in 1..Len(acc) : acc[i] = Head(seq)
                THEN acc ELSE Append(acc, Head(seq)))

\* word_freq: each distinct word's number of occurrences
WordFreq(seq) ==
  [w \in {seq[i] : i \in 1..Len(seq)} |-> Cardinality({i \in 1..Len(seq) : seq[i] = w})]

\* sorted(items, key=count, reverse=True): stable, so equal counts keep their order
\* an unstable sort: a word goes before the words of its own count
RECURSIVE InsertByCountUnstable(_, _, _)
InsertByCountUnstable(sorted, w, freq) ==
  IF sorted = <<>> THEN <<w>>
  ELSE IF freq[Head(sorted)] > freq[w]
       THEN <<Head(sorted)>> \o InsertByCountUnstable(Tail(sorted), w, freq)
       ELSE <<w>> \o sorted

RECURSIVE InsertByCount(_, _, _)
InsertByCount(sorted, w, freq) ==
  IF sorted = <<>> THEN <<w>>
  ELSE IF freq[Head(sorted)] >= freq[w]
       THEN <<Head(sorted)>> \o InsertByCount(Tail(sorted), w, freq)
       ELSE <<w>> \o sorted

RECURSIVE SortByCount(_, _, _)
SortByCount(keys, acc, freq) ==
  IF keys = <<>> THEN acc
  ELSE SortByCount(Tail(keys), InsertByCount(acc, Head(keys), freq), freq)

extract_keywords(text) ==
  LET words == findall_words(lower(text))
      filtered_words ==
        SelectSeq(words, LAMBDA word : word \notin common_words /\ Len(word) > 3)
      word_freq == WordFreq(filtered_words)
      sorted_words == SortByCount(Distinct(filtered_words, <<>>), <<>>, word_freq)
  IN SubSeq(sorted_words, 1, IF Len(sorted_words) < 5 THEN Len(sorted_words) ELSE 5)

categorize_post_length(text) ==
  LET word_count == Len(split(text))
  IN IF word_count = 0 THEN "title_only"
     ELSE IF word_count < 50 THEN "short"
     ELSE IF word_count < 200 THEN "medium"
     ELSE "long"

\* bool(post_data.get('url')): the permalink is not looked at
has_url_any(post_data) == Get(post_data, "url", "") # ""

\* bool(post_data.get('url') and post_data['url'] != post_data.get('permalink', ''))
has_url(post_data) ==
  /\ Get(post_data, "url", "") # ""
  /\ post_data.url # Get(post_data, "permalink", "")

extract_insights_raises(post_data) ==
  ~({"title", "selftext"} \subseteq DOMAIN post_data)

extract_insights(post_data) ==
  [word_count |-> Len(split(post_data.title)) + Len(split(post_data.selftext)),
   has_url |-> has_url(post_data),
   engagement_ratio |-> calculate_engagement_ratio(post_data),
   topic_keywords |-> extract_keywords(post_data.title \o " " \o post_data.selftext),
   post_length_category |-> categorize_post_length(post_data.selftext)]

(***************************************************************************)
(* The state: the wall clock, the bucket (a dict from key to stored JSON   *)
(* document), the table (a dict from primary key to item), the two Lambda  *)
(* invocations in progress, and a history of what the current invocations  *)
(* have done and of the raw objects whose notification is still to be      *)
(* delivered.                                                              *)
(***************************************************************************)
VARIABLES now, s3, table, ing, enr, hist

vars == <<now, s3, table, ing, enr, hist>>

S3_BUCKET_NAME == "bucket"
ENVIRONMENT == "dev"

Subreddits == {"s1", "s2"}
PostIds == {"p1", "p2"}

\* store_in_s3 / store_processed_data: the two key formats
raw_key(post_data) ==
  "raw-data/" \o post_data.subreddit \o "/" \o post_data.post_id \o ".json"
processed_key(processed_data) ==
  "processed-data/" \o processed_data.subreddit \o "/" \o processed_data.post_id \o ".json"

RawKeys == {raw_key([subreddit |-> s, post_id |-> p]) : s \in Subreddits, p \in PostIds}
ProcessedKeys ==
  {processed_key([subreddit |-> s, post_id |-> p]) : s \in Subreddits, p \in PostIds}

\* int(post_data['timestamp']): a float of whole ticks truncated to whole seconds
int(timestamp) == timestamp \div TicksPerSecond

\* {**a, **b}: b's entries override a's
Merge(a, b) == b @@ a

\* s3_client.put_object
put_object(bucket, key, body) == (key :> body) @@ bucket

\* table.put_item: the item replaces whatever the table holds under its key
put_item(tbl, item) ==
  ([post_id |-> item.post_id, timestamp |-> item.timestamp] :> item) @@ tbl

\* an update that accumulates: ADD word_count instead of SET word_count
update_item_add(tbl, key, attributes) ==
  IF key \in DOMAIN tbl
  THEN [tbl EXCEPT ![key] =
          Merge(@, [attributes EXCEPT
                      !.word_count = @ + (IF "word_count" \in DOMAIN tbl[key]
                                          THEN tbl[key].word_count ELSE 0)])]
  ELSE (key :> Merge(key, attributes)) @@ tbl

\* an update that writes the whole item, as put_item does
update_item_put(tbl, key, attributes) == (key :> Merge(key, attributes)) @@ tbl

\* table.update_item with SET: the attributes are set on the item under the
\* key, and an item with just the key and these attributes is created when
\* the table holds none
update_item(tbl, key, attributes) ==
  IF key \in DOMAIN tbl
  THEN [tbl EXCEPT ![key] = Merge(@, attributes)]
  ELSE (key :> Merge(key, attributes)) @@ tbl

(***************************************************************************)
(* process/main.py: lambda_handler and process_reddit_post.                *)
(***************************************************************************)
EnrichIdle == [pc |-> "idle"]

\* the dict the handler returns from its outer except
process_failed(message) ==
  [statusCode |-> 500, body |-> [error |-> "Processing failed", message |-> message]]

process_succeeded(processed_count) ==
  [statusCode |-> 200,
   body |-> [message |-> "Processing completed successfully",
             processed_count |-> processed_count,
             environment |-> ENVIRONMENT]]

\* record['eventSource'], record['s3']['bucket']['name'] or
\* record['s3']['object']['key'] raises KeyError
RecordRaises(record) ==
  \/ "eventSource" \notin DOMAIN record
  \/ /\ record.eventSource = "aws:s3"
     /\ \/ "s3" \notin DOMAIN record
        \/ ~({"bucket", "object"} \subseteq DOMAIN record.s3)
        \/ "name" \notin DOMAIN record.s3.bucket
        \/ "key" \notin DOMAIN record.s3.object

\* a prefix test gone wrong: 'data/' in key
IsRawDataAnywhere(key) == Contains(key, "data/")

\* the two conditions under which process_reddit_post is called
IsRawData(key) == startswith(key, "raw-data/")
Qualifies(record) ==
  record.eventSource = "aws:s3" /\ IsRawData(record.s3.object.key)

\* the objects an event's records are about
DeliveredKeys(event) ==
  IF "Records" \in DOMAIN event
  THEN {event.Records[i].s3.object.key :
          i \in {j \in 1..Len(event.Records) :
                   /\ ~RecordRaises(event.Records[j])
                   /\ event.Records[j].eventSource = "aws:s3"}}
  ELSE {}

\* lambda_handler up to the loop: event['Records'] may raise
EnrichInvoke(event) ==
  /\ enr.pc \in {"idle", "done"}
  /\ enr' = IF "Records" \in DOMAIN event
            THEN [pc |-> "records", event |-> event, i |-> 1, processed_count |-> 0]
            ELSE [pc |-> "done", event |-> event, result |-> process_failed("Records")]
  /\ hist.enrich_invocations < MaxEnrichInvocations
  /\ hist' = [hist EXCEPT !.read = {}, !.completed = {},
                          !.pending = @ \ DeliveredKeys(event),
                          !.enrich_invocations = @ + 1]
  /\ UNCHANGED <<now, s3, table, ing>>

\* one turn of the loop: the record's fields are read, and the record is
\* skipped, handed to process_reddit_post, or its KeyError ends the handler
EnrichRecord ==
  /\ enr.pc = "records"
  /\ enr.i <= Len(enr.event.Records)
  /\ LET record == enr.event.Records[enr.i] IN
       IF RecordRaises(record)
       THEN /\ enr' = [pc |-> "done", event |-> enr.event,
                       result |-> process_failed("KeyError")]
       ELSE IF Qualifies(record)
       THEN /\ enr' = [enr EXCEPT !.pc = "get"]
       ELSE /\ enr' = [enr EXCEPT !.i = @ + 1]
  /\ UNCHANGED <<now, s3, table, ing, hist>>

\* a count taken before the call: the failed record is counted too
EnrichSkipCounted == [pc |-> "records", event |-> enr.event, i |-> enr.i + 1,
                      processed_count |-> enr.processed_count + 1]

\* no try around process_reddit_post: its error reaches the outer except
EnrichAbort == [pc |-> "done", event |-> enr.event, result |-> process_failed("error")]

\* the except clause around process_reddit_post: log and continue
EnrichSkip == [pc |-> "records", event |-> enr.event, i |-> enr.i + 1,
               processed_count |-> enr.processed_count]

\* process_reddit_post up to the merge: get_post_from_s3, analyze_sentiment,
\* extract_insights, processed_data
ProcessGet ==
  /\ enr.pc = "get"
  /\ LET record == enr.event.Records[enr.i]
         key == record.s3.object.key
     IN \E failure \in BOOLEAN :
          IF failure \/ key \notin DOMAIN s3
          THEN enr' = EnrichSkip
          ELSE LET post_data == s3[key] IN
               IF analyze_sentiment_raises(post_data) \/ extract_insights_raises(post_data)
               THEN enr' = EnrichSkip
               ELSE enr' = [enr EXCEPT !.pc = "store"] @@
                           [processed_data |->
                              Merge(Merge(Merge(post_data, analyze_sentiment(post_data)),
                                          extract_insights(post_data)),
                                    [processed_at |-> now, processing_version |-> "1.0"])]
  /\ hist' = [hist EXCEPT !.read = @ \cup {enr.i}]
  /\ UNCHANGED <<now, s3, table, ing>>

\* store_processed_data without its raise: a failed put_object is logged and
\* process_reddit_post goes on to the update
ProcessStoreSwallow ==
  /\ enr.pc = "store"
  /\ \E failure \in BOOLEAN :
       /\ enr' = [enr EXCEPT !.pc = "update"]
       /\ s3' = IF failure \/ ~({"subreddit", "post_id"} \subseteq DOMAIN enr.processed_data)
                THEN s3
                ELSE put_object(s3, processed_key(enr.processed_data), enr.processed_data)
  /\ UNCHANGED <<now, table, ing, hist>>

\* store_processed_data
ProcessStore ==
  /\ enr.pc = "store"
  /\ \E failure \in BOOLEAN :
       IF failure \/ ~({"subreddit", "post_id"} \subseteq DOMAIN enr.processed_data)
       THEN /\ enr' = EnrichSkip
            /\ s3' = s3
       ELSE /\ enr' = [enr EXCEPT !.pc = "update"]
            /\ s3' = put_object(s3, processed_key(enr.processed_data), enr.processed_data)
  /\ UNCHANGED <<now, table, ing, hist>>

\* update_dynamodb_record, then processed_count += 1
ProcessUpdate ==
  /\ enr.pc = "update"
  /\ LET processed_data == enr.processed_data IN
     \E failure \in BOOLEAN :
       IF failure \/ ~({"post_id", "timestamp"} \subseteq DOMAIN processed_data)
       THEN /\ enr' = EnrichSkip
            /\ table' = table
            /\ hist' = hist
       ELSE /\ table' = update_item(table,
                           [post_id |-> processed_data.post_id,
                            timestamp |-> int(processed_data.timestamp)],
                           [processed |-> TRUE,
                            sentiment_score |-> processed_data.sentiment_score,
                            sentiment_category |-> processed_data.sentiment_category,
                            word_count |-> processed_data.word_count,
                            processed_at |-> processed_data.processed_at])
            /\ enr' = [pc |-> "records", event |-> enr.event, i |-> enr.i + 1,
                       processed_count |-> enr.processed_count + 1]
            /\ hist' = [hist EXCEPT !.completed = @ \cup {enr.i}]
  /\ UNCHANGED <<now, s3, ing>>

\* the loop is over: the success dict
EnrichReturn ==
  /\ enr.pc = "records"
  /\ enr.i > Len(enr.event.Records)
  /\ enr' = [pc |-> "done", event |-> enr.event,
             result |-> process_succeeded(enr.processed_count)]
  /\ UNCHANGED <<now, s3, table, ing, hist>>

EnrichStep ==
  EnrichRecord \/ ProcessGet \/ ProcessStore \/ ProcessUpdate \/ EnrichReturn

(***************************************************************************)
(* The content source: a subreddit's hot listing, and a submission's       *)
(* attributes as praw exposes them.                                        *)
(***************************************************************************)
HotListing == [s1 |-> <<"p1", "p2">>, s2 |-> <<"p2">>]

Submission ==
  [p1 |-> [id |-> "p1", title |-> "I love this", selftext |-> "",
           author |-> "alice", score |-> 10, upvote_ratio |-> Frac(9, 10),
           num_comments |-> 2, created_utc |-> 0, url |-> "http://x",
           permalink |-> "http://x", is_self |-> TRUE, over_18 |-> FALSE,
           spoiler |-> FALSE, locked |-> FALSE, stickied |-> FALSE],
   p2 |-> [id |-> "p2", title |-> "Worst day", selftext |-> "bad awful news",
           author |-> "[deleted]", score |-> 0, upvote_ratio |-> Frac(1, 2),
           num_comments |-> 3, created_utc |-> 0, url |-> "http://y",
           permalink |-> "/r/p2", is_self |-> FALSE, over_18 |-> FALSE,
           spoiler |-> FALSE, locked |-> TRUE, stickied |-> FALSE]]

(***************************************************************************)
(* ingest/main.py.                                                         *)
(***************************************************************************)
DEFAULT_SUBREDDITS == <<"technology", "news", "worldnews", "politics">>
DEFAULT_POSTS_PER_SUBREDDIT == 25

ingest_failed(message) ==
  [statusCode |-> 500, body |-> [error |-> "Reddit ingestion failed", message |-> message]]

ingest_succeeded(total_posts_processed, subreddits) ==
  [statusCode |-> 200,
   body |-> [message |-> "Reddit ingestion completed successfully",
             total_posts_processed |-> total_posts_processed,
             subreddits_processed |-> subreddits,
             environment |-> ENVIRONMENT]]

extract_post_data(post, subreddit_name, timestamp) ==
  [post_id |-> post.id,
   subreddit |-> subreddit_name,
   title |-> post.title,
   selftext |-> post.selftext,
   author |-> post.author,
   score |-> post.score,
   upvote_ratio |-> post.upvote_ratio,
   num_comments |-> post.num_comments,
   created_utc |-> post.created_utc,
   url |-> post.url,
   permalink |-> post.permalink,
   is_self |-> post.is_self,
   over_18 |-> post.over_18,
   spoiler |-> post.spoiler,
   locked |-> post.locked,
   stickied |-> post.stickied,
   timestamp |-> timestamp,
   ingestion_date |-> timestamp,
   environment |-> ENVIRONMENT]

\* the item store_in_dynamodb builds
dynamodb_item(post_data) ==
  [post_id |-> post_data.post_id,
   timestamp |-> int(post_data.timestamp),
   subreddit |-> post_data.subreddit,
   title |-> post_data.title,
   author |-> post_data.author,
   score |-> post_data.score,
   num_comments |-> post_data.num_comments,
   created_utc |-> post_data.created_utc,
   ingestion_date |-> post_data.ingestion_date,
   environment |-> post_data.environment,
   processed |-> FALSE]

\* lambda_handler up to the loop: praw.Reddit(...) may raise
IngestInvoke(event) ==
  /\ ing.pc \in {"idle", "done"}
  /\ \E failure \in BOOLEAN :
       ing' = IF failure
              THEN [pc |-> "done", result |-> ingest_failed("praw")]
              ELSE [pc |-> "posts",
                    subreddits |-> Get(event, "subreddits", DEFAULT_SUBREDDITS),
                    posts_per_subreddit |->
                      Get(event, "posts_per_subreddit", DEFAULT_POSTS_PER_SUBREDDIT),
                    total_posts_processed |-> 0,
                    s |-> 1, fetched |-> 0, posts_processed |-> 0]
  /\ hist.ingest_invocations < MaxIngestInvocations
  /\ hist' = [hist EXCEPT !.persisted = 0, !.attempted = {}, !.fetch_failed = {},
                          !.yielded = {}, !.item_failed = {},
                          !.ingest_invocations = @ + 1]
  /\ UNCHANGED <<now, s3, table, enr>>

\* the handler's loop moves to the next subreddit, adding what
\* process_subreddit returned (nothing when it raised)
NextSubreddit(returned) ==
  [pc |-> "posts", subreddits |-> ing.subreddits,
   posts_per_subreddit |-> ing.posts_per_subreddit,
   total_posts_processed |-> ing.total_posts_processed + returned,
   s |-> ing.s + 1, fetched |-> 0, posts_processed |-> 0]

\* a break where the handler's except clause has continue: the loop is left
SubredditFailedBreak ==
  [pc |-> "posts", subreddits |-> ing.subreddits,
   posts_per_subreddit |-> ing.posts_per_subreddit,
   total_posts_processed |-> ing.total_posts_processed,
   s |-> Len(ing.subreddits) + 1, fetched |-> 0, posts_processed |-> 0]

\* no try around process_subreddit: its error reaches the handler's outer except
SubredditFailedRaise ==
  [pc |-> "done", subreddits |-> ing.subreddits,
   posts_per_subreddit |-> ing.posts_per_subreddit, result |-> ingest_failed("fetch")]

\* the handler's except clause around process_subreddit: log and continue
SubredditFailed == NextSubreddit(0)

\* the except clause around one post: log and continue
IngestSkip ==
  [pc |-> "posts", subreddits |-> ing.subreddits,
   posts_per_subreddit |-> ing.posts_per_subreddit,
   total_posts_processed |-> ing.total_posts_processed,
   s |-> ing.s, fetched |-> ing.fetched, posts_processed |-> ing.posts_processed]

\* process_subreddit: the listing's next step.  The fetch raises (and
\* process_subreddit re-raises), the listing is over (process_subreddit
\* returns posts_processed), or it yields a post for extract_post_data, which
\* reads the clock
IngestNextPost ==
  /\ ing.pc = "posts"
  /\ ing.s <= Len(ing.subreddits)
  /\ LET subreddit_name == ing.subreddits[ing.s]
         listing == HotListing[subreddit_name]
         more == ing.fetched < Len(listing) /\ ing.fetched < ing.posts_per_subreddit
     IN \/ /\ ing.fetched = 0 \/ more
           /\ ing' = SubredditFailed
           /\ hist' = [hist EXCEPT !.attempted = @ \cup {ing.s},
                                   !.fetch_failed = @ \cup {ing.s}]
        \/ /\ ~more
           /\ ing' = NextSubreddit(ing.posts_processed)
           /\ hist' = [hist EXCEPT !.attempted = @ \cup {ing.s}]
        \/ /\ more
           /\ \E failure \in BOOLEAN :
                IF failure
                THEN /\ ing' = [IngestSkip EXCEPT !.fetched = @ + 1]
                     /\ hist' = [hist EXCEPT !.attempted = @ \cup {ing.s},
                                             !.yielded = @ \cup {<<ing.s, ing.fetched + 1>>},
                                             !.item_failed = @ \cup {<<ing.s, ing.fetched + 1>>}]
                ELSE /\ ing' = [IngestSkip EXCEPT !.fetched = @ + 1, !.pc = "s3"] @@
                               [post_data |->
                                  extract_post_data(Submission[listing[ing.fetched + 1]],
                                                    subreddit_name, now)]
                     /\ hist' = [hist EXCEPT !.attempted = @ \cup {ing.s},
                                             !.yielded = @ \cup {<<ing.s, ing.fetched + 1>>}]
  /\ UNCHANGED <<now, s3, table, enr>>

\* store_in_s3
IngestStoreS3 ==
  /\ ing.pc = "s3"
  /\ \E failure \in BOOLEAN :
       IF failure
       THEN /\ ing' = IngestSkip
            /\ s3' = s3
            /\ hist' = [hist EXCEPT !.item_failed = @ \cup {<<ing.s, ing.fetched>>}]
       ELSE /\ ing' = [ing EXCEPT !.pc = "dynamodb"]
            /\ s3' = put_object(s3, raw_key(ing.post_data), ing.post_data)
            /\ hist' = [hist EXCEPT !.pending = @ \cup {raw_key(ing.post_data)}]
  /\ UNCHANGED <<now, table, enr>>

\* store_in_dynamodb, then posts_processed += 1
IngestStoreDynamoDB ==
  /\ ing.pc = "dynamodb"
  /\ \E failure \in BOOLEAN :
       IF failure
       THEN /\ ing' = IngestSkip
            /\ table' = table
            /\ hist' = [hist EXCEPT !.item_failed = @ \cup {<<ing.s, ing.fetched>>}]
       ELSE /\ table' = put_item(table, dynamodb_item(ing.post_data))
            /\ ing' = [IngestSkip EXCEPT !.posts_processed = @ + 1]
            /\ hist' = [hist EXCEPT !.persisted = @ + 1]
  /\ UNCHANGED <<now, s3, enr>>

\* the loop is over: the success dict
IngestReturn ==
  /\ ing.pc = "posts"
  /\ ing.s > Len(ing.subreddits)
  /\ ing' = [pc |-> "done", subreddits |-> ing.subreddits,
             posts_per_subreddit |-> ing.posts_per_subreddit,
             result |-> ingest_succeeded(ing.total_posts_processed, ing.subreddits)]
  /\ UNCHANGED <<now, s3, table, enr, hist>>

IngestStep == IngestNextPost \/ IngestStoreS3 \/ IngestStoreDynamoDB \/ IngestReturn

(***************************************************************************)
(* The environment: the clock, who invokes the ingestion handler and with  *)
(* what, and what the bucket's trigger delivers to the processing handler. *)
(***************************************************************************)
Tick == now < MaxTime /\ now' = now + 1 /\ UNCHANGED <<s3, table, ing, enr, hist>>

RECURSIVE SeqsUpTo(_, _)
SeqsUpTo(S, n) ==
  IF n = 0 THEN {<<>>}
  ELSE LET shorter == SeqsUpTo(S, n - 1)
       IN shorter \cup {Append(q, x) : q \in shorter, x \in S}

IngestEvents ==
  {[subreddits |-> subs, posts_per_subreddit |-> n] :
     subs \in SeqsUpTo(Subreddits, MaxSubreddits) \ {<<>>},
     n \in 1..MaxPostsPerSubreddit}

\* one record of an S3 event notification
S3Record(eventName, key) ==
  [eventSource |-> "aws:s3", eventName |-> eventName,
   s3 |-> [bucket |-> [name |-> S3_BUCKET_NAME], object |-> [key |-> key]]]

\* the trigger: an ObjectCreated record for an object put under raw-data/,
\* delivered at least once, in batches
Delivered ==
  {[Records |-> records] :
     records \in SeqsUpTo({S3Record("ObjectCreated:Put", key) :
                             key \in {k \in DOMAIN s3 : IsRawData(k)}},
                          MaxRecords) \ {<<>>}}

\* the pipeline's scheduled invocations: one subreddit, its first post
ScheduledEvents ==
  {[subreddits |-> <<s>>, posts_per_subreddit |-> 1] : s \in Subreddits}

Init ==
  /\ now = 0
  /\ s3 = <<>>
  /\ table = <<>>
  /\ ing = [pc |-> "idle"]
  /\ enr = EnrichIdle
  /\ hist = [read |-> {}, completed |-> {}, persisted |-> 0,
             attempted |-> {}, fetch_failed |-> {}, yielded |-> {}, item_failed |-> {},
             pending |-> {},
             ingest_invocations |-> 0, enrich_invocations |-> 0]

Next ==
  \/ Tick
  \/ \E event \in ScheduledEvents : IngestInvoke(event)
  \/ IngestStep
  \/ enr.pc \in {"idle", "done"} /\ \E event \in Delivered : EnrichInvoke(event)
  \/ EnrichStep

Spec == Init /\ [][Next]_vars

(***************************************************************************)
(* The ingestion handler alone, on every list of subreddits and limit.     *)
(***************************************************************************)
IngestNext ==
  \/ Tick
  \/ \E event \in IngestEvents : IngestInvoke(event)
  \/ IngestStep

IngestSpec == Init /\ [][IngestNext]_vars

(***************************************************************************)
(* One invocation of the ingestion handler, on every list of subreddits    *)
(* and limit, over an empty bucket and an empty table.                     *)
(***************************************************************************)
IngestOnceNext ==
  \/ Tick
  \/ ing.pc = "idle" /\ \E event \in IngestEvents : IngestInvoke(event)
  \/ IngestStep

IngestOnceSpec == Init /\ [][IngestOnceNext]_vars

(***************************************************************************)
(* The processing handler alone, invoked once on any event over a bucket   *)
(* and a table as ingestion leaves them: raw objects, with their items or  *)
(* without (store_in_dynamodb may have failed).  One raw object may be a   *)
(* document that is not a complete post (put by another writer).           *)
(***************************************************************************)
Without(dict, key) == [k \in DOMAIN dict \ {key} |-> dict[k]]

StoredPost(subreddit_name, post_id) ==
  extract_post_data(Submission[post_id], subreddit_name, 0)

\* the first post's raw object is there; the second's is missing, there, or
\* there as an incomplete document
StoredObjects ==
  LET post1 == StoredPost("s1", "p1")
      post2 == StoredPost("s2", "p2")
  IN {(raw_key(post1) :> post1) @@ second :
        second \in {<<>>, raw_key(post2) :> post2,
                    raw_key(post2) :> Without(post2, "selftext"),
                    raw_key(post2) :> Without(post2, "timestamp")}}

\* the items of the complete posts in the bucket, or none of them
StoredItems(bucket) ==
  LET complete == {k \in DOMAIN bucket : DOMAIN bucket[k] = DOMAIN StoredPost("s1", "p1")}
      Items(keys) == [key \in {[post_id |-> bucket[k].post_id,
                                timestamp |-> int(bucket[k].timestamp)] : k \in keys}
                       |-> dynamodb_item(CHOOSE post \in {bucket[k] : k \in keys} :
                                           post.post_id = key.post_id)]
  IN {Items(complete), Items({})}

TriggerRecords ==
  {S3Record("ObjectCreated:Put", raw_key([subreddit |-> "s1", post_id |-> "p1"])),
   S3Record("ObjectCreated:Put", raw_key([subreddit |-> "s2", post_id |-> "p2"])),
   S3Record("ObjectRemoved:Delete", raw_key([subreddit |-> "s1", post_id |-> "p1"])),
   S3Record("ObjectCreated:Put", processed_key([subreddit |-> "s1", post_id |-> "p1"])),
   [eventSource |-> "aws:sqs", body |-> ""],
   [eventName |-> "ObjectCreated:Put"],
   [eventSource |-> "aws:s3",
    s3 |-> [bucket |-> [name |-> S3_BUCKET_NAME], object |-> [size |-> 0]]]}

TriggerEvents ==
  {[Records |-> records] : records \in SeqsUpTo(TriggerRecords, MaxBatch)}
    \cup {[detail |-> "scheduled"]}

EnrichInit ==
  /\ now = 0
  /\ s3 \in StoredObjects
  /\ table \in StoredItems(s3)
  /\ ing = [pc |-> "idle"]
  /\ enr = EnrichIdle
  /\ hist = [read |-> {}, completed |-> {}, persisted |-> 0,
             attempted |-> {}, fetch_failed |-> {}, yielded |-> {}, item_failed |-> {},
             pending |-> {},
             ingest_invocations |-> 0, enrich_invocations |-> 0]

EnrichNext ==
  \/ enr.pc = "idle" /\ \E event \in TriggerEvents : EnrichInvoke(event)
  \/ EnrichStep

EnrichSpec == EnrichInit /\ [][EnrichNext]_vars

(***************************************************************************)
(* The processing handler invoked again and again by the trigger, which    *)
(* delivers at least once, over a bucket whose raw objects stay as they    *)
(* are.                                                                    *)
(***************************************************************************)
RedeliveryNext ==
  \/ Tick
  \/ enr.pc \in {"idle", "done"} /\ \E event \in Delivered : EnrichInvoke(event)
  \/ EnrichStep

RedeliverySpec == EnrichInit /\ [][RedeliveryNext]_vars

(***************************************************************************)
(* One scheduled invocation of the ingestion handler, with the processing  *)
(* handler invoked by the trigger, again and again, while it runs and      *)
(* after it.                                                               *)
(***************************************************************************)
OrderNext ==
  \/ Tick
  \/ ing.pc = "idle" /\ \E event \in ScheduledEvents : IngestInvoke(event)
  \/ IngestStep
  \/ enr.pc \in {"idle", "done"} /\ \E event \in Delivered : EnrichInvoke(event)
  \/ EnrichStep

OrderSpec == Init /\ [][OrderNext]_vars

(***************************************************************************)
(* The pipeline when no storage call fails and the trigger delivers a      *)
(* notification once the ingestion handler has returned.                   *)
(***************************************************************************)
IngestStorageSucceeds ==
  /\ ing.pc = "s3" => ing'.pc = "dynamodb"
  /\ ing.pc = "dynamodb" => ing'.posts_processed = ing.posts_processed + 1

EnrichStorageSucceeds ==
  /\ enr.pc = "get" => enr'.pc = "store"
  /\ enr.pc = "store" => enr'.pc = "update"
  /\ enr.pc = "update" => enr'.processed_count = enr.processed_count + 1

ReliableNext ==
  \/ Tick
  \/ \E event \in ScheduledEvents : IngestInvoke(event)
  \/ IngestStep /\ IngestStorageSucceeds
  \/ /\ ing.pc \in {"idle", "done"}
     /\ enr.pc \in {"idle", "done"}
     /\ \E event \in Delivered : EnrichInvoke(event)
  \/ EnrichStep /\ EnrichStorageSucceeds

ReliableSpec == Init /\ [][ReliableNext]_vars

(***************************************************************************)
(* The derivations on their own: the processing handler invoked once on    *)
(* the one raw object of the bucket, whose title and selftext are drawn    *)
(* from the texts below.                                                   *)
(***************************************************************************)
TitleWords == {"I", "love", "This", "Hate", "goodgreatlove", "badawfulhate", "zeta"}

RECURSIVE JoinWords(_)
JoinWords(words) ==
  IF words = <<>> THEN ""
  ELSE IF Len(words) = 1 THEN words[1]
  ELSE words[1] \o " " \o JoinWords(Tail(words))

Titles == {JoinWords(words) : words \in SeqsUpTo(TitleWords, MaxTitleWords)}

Selftexts ==
  {"", " \t ",
   "one two three four five six seven eight nine",
   "one two three four five six seven eight",
   "alpha beta gamma delta epsilon zeta these the cat beta",
   "zeta, gamma! gamma-zeta Alpha_1 awfully"}

DerivePosts ==
  {extract_post_data([Submission["p1"] EXCEPT !.title = title, !.selftext = selftext],
                     "s1", 0) :
     title \in Titles, selftext \in Selftexts}
    \cup {StoredPost("s1", "p1"), StoredPost("s2", "p2")}

DeriveInit ==
  /\ now = 0
  /\ \E post \in DerivePosts :
       /\ s3 = (raw_key(post) :> post)
       /\ table = put_item(<<>>, dynamodb_item(post))
  /\ ing = [pc |-> "idle"]
  /\ enr = EnrichIdle
  /\ hist = [read |-> {}, completed |-> {}, persisted |-> 0,
             attempted |-> {}, fetch_failed |-> {}, yielded |-> {}, item_failed |-> {},
             pending |-> {},
             ingest_invocations |-> 0, enrich_invocations |-> 0]

DeriveNext ==
  \/ /\ enr.pc = "idle"
     /\ \E key \in DOMAIN s3 :
          EnrichInvoke([Records |-> <<S3Record("ObjectCreated:Put", key)>>])
  \/ EnrichStep

DeriveSpec == DeriveInit /\ [][DeriveNext]_vars

(***************************************************************************)
(* The processing handler's batch contract.                                *)
(***************************************************************************)
Records == enr.event.Records
HasRecords == "Records" \in DOMAIN enr.event
Returned == enr.pc = "done"

\* the records process_reddit_post is meant for
RawDataRecords ==
  {i \in 1..Len(Records) : ~RecordRaises(Records[i]) /\ Qualifies(Records[i])}

\* C1: whichever of loading the object, deriving, writing the processed
\* object and updating the item fails for whichever record, the failure stays
\* inside that record: the handler answers 500 only because event['Records']
\* or a record's own fields could not be read, and otherwise answers 200 with
\* processed_count the number of raw-data records whose steps all completed.
C1_FailuresCaughtAndCounted ==
  /\ enr.pc \in {"records", "get", "store", "update"} =>
        /\ enr.processed_count = Cardinality(hist.completed)
        /\ hist.completed \subseteq RawDataRecords
  /\ Returned =>
        IF HasRecords /\ \A i \in 1..Len(Records) : ~RecordRaises(Records[i])
        THEN /\ enr.result.statusCode = 200
             /\ enr.result.body.processed_count = Cardinality(hist.completed)
             /\ hist.read = RawDataRecords
        ELSE enr.result.statusCode = 500

\* a batch of three raw-data records, one of which failed: the count is 2
C1_Witness ==
  /\ Returned /\ HasRecords /\ Len(Records) = 3
  /\ Cardinality(hist.read) = 3
  /\ enr.result.statusCode = 200
  /\ enr.result.body.processed_count = 2

\* C2: a record that cannot be read (no eventSource, bucket or key) does not
\* stop the records after it: when the handler has returned on an event that
\* has Records, every raw-data record of the batch was handed to
\* process_reddit_post (and so the 500 answer is kept for an unreadable
\* event['Records']).
C2_MalformedRecordSparesSiblings ==
  Returned /\ HasRecords => RawDataRecords \subseteq hist.read

\* C3: process_reddit_post runs (and reads the object) only for ObjectCreated
\* records.
ObjectCreated(record) ==
  "eventName" \in DOMAIN record /\ startswith(record.eventName, "ObjectCreated:")

C3_OnlyObjectCreatedActedOn ==
  enr.pc \in {"records", "get", "store", "update"} \/ (Returned /\ HasRecords) =>
    \A i \in hist.read : ObjectCreated(Records[i])

\* C4: a record whose key is not under raw-data/ is passed over: the step
\* that looks at it changes neither the bucket nor the table nor the count and
\* reads no object; and a batch of nothing but such records returns 200 with
\* processed_count 0.
HasOtherKey(record) ==
  /\ ~RecordRaises(record)
  /\ record.eventSource = "aws:s3"
  /\ ~startswith(record.s3.object.key, "raw-data/")

C4_SkipStep ==
  (enr.pc = "records" /\ enr.i <= Len(Records) /\ HasOtherKey(Records[enr.i])) =>
    /\ s3' = s3 /\ table' = table /\ hist' = hist
    /\ enr' = [enr EXCEPT !.i = @ + 1]

C4_OtherKeysReturnZero ==
  (/\ Returned /\ HasRecords
   /\ \A i \in 1..Len(Records) : HasOtherKey(Records[i])) =>
    /\ enr.result.statusCode = 200
    /\ enr.result.body.processed_count = 0
    /\ hist.read = {}

C4_OtherKeysSkipped == [][C4_SkipStep /\ C4_OtherKeysReturnZero']_vars

C4_Witness ==
  /\ Returned /\ HasRecords /\ Len(Records) = 1
  /\ HasOtherKey(Records[1])
  /\ enr.result.statusCode = 200
  /\ enr.result.body.processed_count = 0

(***************************************************************************)
(* The pipeline: redelivery, re-ingestion and interleaving.                *)
(***************************************************************************)
ExceptProcessedAt(dict) == [k \in DOMAIN dict \ {"processed_at"} |-> dict[k]]

\* two stores that agree on their keys and on everything but processed_at
SameExceptProcessedAt(before, after) ==
  /\ DOMAIN after = DOMAIN before
  /\ \A k \in DOMAIN before : ExceptProcessedAt(after[k]) = ExceptProcessedAt(before[k])

RawFields == DOMAIN extract_post_data(Submission["p1"], "s1", 0)

\* the processed object in the bucket was derived from the raw record that
\* the delivery in progress has read
ProcessedBefore ==
  LET key == "processed-data/" \o enr.processed_data.subreddit \o "/"
               \o enr.processed_data.post_id \o ".json"
  IN /\ key \in DOMAIN s3
     /\ \A f \in RawFields :
          /\ (f \in DOMAIN s3[key]) = (f \in DOMAIN enr.processed_data)
          /\ f \in DOMAIN s3[key] => s3[key][f] = enr.processed_data[f]

\* the item of the raw record in hand is as an earlier delivery left it
UpdatedBefore ==
  "timestamp" \in DOMAIN enr.processed_data /\
  LET key == [post_id |-> enr.processed_data.post_id,
              timestamp |-> enr.processed_data.timestamp \div TicksPerSecond]
  IN key \in DOMAIN table /\ "processed" \in DOMAIN table[key] /\ table[key].processed

C5_Step ==
  /\ (enr.pc = "store" /\ enr'.pc = "update" /\ ProcessedBefore) =>
        SameExceptProcessedAt(s3, s3')
  /\ (/\ enr.pc = "update" /\ enr'.pc = "records"
      /\ enr'.processed_count = enr.processed_count + 1
      /\ UpdatedBefore) =>
        SameExceptProcessedAt(table, table')

\* C5: a second delivery for a raw object that has not changed writes the
\* processed object it wrote the first time and sets on the item what it set
\* the first time: bucket and table are as after one delivery in everything
\* but processed_at.
C5_RedeliveryIdempotent == [][C5_Step]_vars

\* a second invocation has rewritten the processed object of a record whose
\* item an earlier delivery, at an earlier time, marked processed
C5_Witness ==
  /\ enr.pc = "update"
  /\ hist.enrich_invocations = 2
  /\ UpdatedBefore
  /\ \E k \in DOMAIN table :
       /\ k.post_id = enr.processed_data.post_id
       /\ "processed_at" \in DOMAIN table[k]
       /\ table[k].processed_at < enr.processed_data.processed_at
  /\ s3[processed_key(enr.processed_data)] = enr.processed_data

\* an item that store_in_dynamodb put: update_item never sets these attributes
InsertedByIngestion(item) == {"subreddit", "title", "ingestion_date"} \subseteq DOMAIN item

\* C6: however often a post is fetched, the table holds at most one item of
\* ingestion's for its post_id.
C6_OneRowPerPost ==
  \A p \in PostIds :
    Cardinality({k \in DOMAIN table :
                   k.post_id = p /\ InsertedByIngestion(table[k])}) <= 1

\* C7: an item that ingestion created and processing marked processed stays
\* in the table, marked processed and with its sentiment attributes, whatever
\* ingestion or processing does next.
C7_Step ==
  \A k \in DOMAIN table :
    (InsertedByIngestion(table[k]) /\ table[k].processed) =>
      /\ k \in DOMAIN table'
      /\ table'[k].processed
      /\ {"sentiment_score", "sentiment_category"} \subseteq DOMAIN table'[k]

C7_ProcessedNeverReset == [][C7_Step]_vars

\* C8: every item of the table was put there by store_in_dynamodb.
C8_OnlyIngestionCreatesRows ==
  \A k \in DOMAIN table : InsertedByIngestion(table[k])

\* C9: the timestamp in a raw object never changes once the object is written.
C9_Step ==
  \A k \in DOMAIN s3 :
    startswith(k, "raw-data/") => s3'[k].timestamp = s3[k].timestamp

C9_TimestampAssignedOnce == [][C9_Step]_vars

(***************************************************************************)
(* The ingestion handler's result.                                         *)
(***************************************************************************)
\* C10: the success result counts the items this invocation wrote to both the
\* bucket and the table, and echoes the requested subreddits.
C10_TotalCountsPersistedItems ==
  (ing.pc = "done" /\ ing.result.statusCode = 200) =>
    /\ ing.result.body.total_posts_processed = hist.persisted
    /\ ing.result.body.subreddits_processed = ing.subreddits

(***************************************************************************)
(* The ingestion handler's failure isolation.                              *)
(***************************************************************************)
Min(a, b) == IF a < b THEN a ELSE b

\* the loop over the subreddits was entered
InLoop == "subreddits" \in DOMAIN ing

\* a post's extraction or one of its two stores failed in this step: the
\* loop over the listing goes on, in the same subreddit
C11_ItemStep ==
  (hist.item_failed \subseteq hist'.item_failed /\ hist'.item_failed # hist.item_failed) =>
    /\ ing'.pc = "posts"
    /\ ing'.s = ing.s
    /\ ing'.subreddits = ing.subreddits
    /\ ing'.posts_per_subreddit = ing.posts_per_subreddit
    /\ ing'.posts_processed = ing.posts_processed
    /\ ing'.total_posts_processed = ing.total_posts_processed

\* a subreddit's fetch failed in this step: the loop over the subreddits
\* goes on with the next one
C11_FetchStep ==
  (hist.fetch_failed \subseteq hist'.fetch_failed /\ hist'.fetch_failed # hist.fetch_failed) =>
    /\ ing'.pc = "posts"
    /\ ing'.s = ing.s + 1
    /\ ing'.subreddits = ing.subreddits

\* on return every subreddit of the list was attempted, every post of a
\* subreddit whose fetch did not fail was attempted, and the result is 200
C11_Returned ==
  (ing.pc = "done" /\ InLoop) =>
    /\ ing.result.statusCode = 200
    /\ hist.attempted = 1..Len(ing.subreddits)
    /\ hist.item_failed \subseteq hist.yielded
    /\ \A i \in 1..Len(ing.subreddits) :
         i \notin hist.fetch_failed =>
           {y[2] : y \in {z \in hist.yielded : z[1] = i}} =
             1..Min(Len(HotListing[ing.subreddits[i]]),
                    ing.posts_per_subreddit)

\* C11: a failure extracting or storing one post skips that post only and
\* the listing's remaining posts are still attempted; a failure fetching a
\* subreddit skips that subreddit only and every later subreddit is still
\* attempted; the handler returns 200 in both cases.
C11_FailuresIsolatedPerUnit == [][C11_ItemStep /\ C11_FetchStep /\ C11_Returned']_vars

\* the first subreddit's fetch failed, the second's first post failed, and
\* the second's second post was stored in both stores
C11_Witness ==
  /\ ing.pc = "done" /\ InLoop
  /\ ing.result.statusCode = 200
  /\ hist.fetch_failed = {1}
  /\ <<2, 1>> \in hist.item_failed
  /\ <<2, 2>> \in hist.yielded \ hist.item_failed
  /\ hist.persisted = 1

\* C12: a 500 result of the ingestion handler comes with nothing written by
\* the invocation: no raw object and no item.
C12_HardFailureWritesNothing ==
  (ing.pc = "done" /\ ing.result.statusCode = 500) =>
    /\ s3 = <<>>
    /\ table = <<>>
    /\ hist.persisted = 0 /\ hist.yielded = {}

C12_Witness ==
  /\ ing.pc = "done"
  /\ ing.result.statusCode = 500
  /\ ing.result.body.error = "Reddit ingestion failed"


(***************************************************************************)
(* The processing handler: a raw object that cannot be loaded.             *)
(***************************************************************************)
\* the processed object's key for a raw object's key
ProcessedKeyOf(key) == "processed-data/" \o SubSeq(key, Len("raw-data/") + 1, Len(key))

\* the raw-data records of the batch whose object is not in the bucket
AbsentRecords == {i \in RawDataRecords : Records[i].s3.object.key \notin DOMAIN s3}

\* the step in which get_post_from_s3 (or a derivation) gives the record up:
\* bucket and table stay as they are, the count too, and the loop goes on
C13_LoadStep ==
  (enr.pc = "get" /\ enr'.pc # "store") =>
    /\ s3' = s3
    /\ table' = table
    /\ enr' = [pc |-> "records", event |-> enr.event, i |-> enr.i + 1,
               processed_count |-> enr.processed_count]

\* after the batch: no processed object and no marked item for a record
\* whose raw object is absent, and every raw-data record was taken up
C13_Returned ==
  (Returned /\ HasRecords /\ \A i \in 1..Len(Records) : ~RecordRaises(Records[i])) =>
    /\ hist.read = RawDataRecords
    /\ hist.completed \cap AbsentRecords = {}
    /\ \A i \in AbsentRecords :
         /\ ProcessedKeyOf(Records[i].s3.object.key) \notin DOMAIN s3
         /\ \A p \in PostIds, sub \in Subreddits :
              Records[i].s3.object.key = raw_key([subreddit |-> sub, post_id |-> p]) =>
                \A k \in DOMAIN table : k.post_id = p => ~table[k].processed

\* C13: when the raw object of a record cannot be loaded, no processed
\* object is written and no item is updated for it, and the records after it
\* are still processed.
C13_LoadFailureCommitsNothing == [][C13_LoadStep /\ C13_Returned']_vars

\* the first record's object is absent and the second record was processed
C13_Witness ==
  /\ Returned /\ HasRecords /\ Len(Records) = 2
  /\ AbsentRecords = {1}
  /\ hist.completed = {2}
  /\ enr.result.statusCode = 200
  /\ enr.result.body.processed_count = 1


(***************************************************************************)
(* The derivations.                                                        *)
(***************************************************************************)
\* process_reddit_post has derived the record
Derived == enr.pc \in {"store", "update"}

\* the text the sentiment is derived from
SentimentText == enr.processed_data.title \o " " \o enr.processed_data.selftext

\* the whitespace-delimited words of a text: a word starts where a character
\* that is not white space follows white space or starts the text
WordStarts(text) ==
  {i \in 1..Len(text) :
     /\ SubSeq(text, i, i) \notin {" ", "\t", "\n", "\r"}
     /\ i = 1 \/ SubSeq(text, i - 1, i - 1) \in {" ", "\t", "\n", "\r"}}

\* the list words found in a text, positive and negative
Matched(text) ==
  {w \in {positive_words[i] : i \in 1..Len(positive_words)}
          \cup {negative_words[i] : i \in 1..Len(negative_words)} :
     Contains(lower(text), w)}

\* C14: the sentiment score lies in [-1, 1] whatever the title and the
\* selftext, also when more list words are matched than the text has words,
\* and it is 0 when the text has no word.
C14_ScoreInRange ==
  Derived =>
    LET score == enr.processed_data.sentiment_score IN
      /\ -score.d <= score.n /\ score.n <= score.d /\ score.d > 0
      /\ WordStarts(SentimentText) = {} => score = [n |-> 0, d |-> 1]

\* one token in which three list words are matched: the score is 1, not 3
C14_Witness ==
  /\ Derived
  /\ Cardinality(WordStarts(SentimentText)) = 1
  /\ Cardinality(Matched(SentimentText)) = 3
  /\ enr.processed_data.sentiment_score = [n |-> 1, d |-> 1]

\* C15: the category is positive exactly when the score is above 0.1,
\* negative exactly when it is below -0.1 and neutral otherwise, so that 0.1 and
\* -0.1 themselves are neutral; the confidence is the score's absolute value.
C15_StrictBoundaries ==
  Derived =>
    LET score == enr.processed_data.sentiment_score
        category == enr.processed_data.sentiment_category
    IN /\ category \in {"positive", "negative", "neutral"}
       /\ (category = "positive") = (10 * score.n > score.d)
       /\ (category = "negative") = (10 * score.n < -score.d)
       /\ enr.processed_data.confidence =
            [n |-> IF score.n < 0 THEN -score.n ELSE score.n, d |-> score.d]

\* ten words, one of them a positive list word: 0.1 is neutral
C15_Witness ==
  /\ Derived
  /\ Cardinality(WordStarts(SentimentText)) = 10
  /\ enr.processed_data.sentiment_score = [n |-> 1, d |-> 10]
  /\ enr.processed_data.sentiment_category = "neutral"
  /\ enr.processed_data.confidence = [n |-> 1, d |-> 10]

\* the raw record of the scenario
IsLoveThis ==
  /\ enr.processed_data.title = "I love this"
  /\ enr.processed_data.selftext = ""
  /\ enr.processed_data.score = 10
  /\ enr.processed_data.num_comments = 2
  /\ enr.processed_data.url = "http://x"
  /\ enr.processed_data.permalink = "http://x"

\* C16 as stated: for title "I love this", selftext "", score 10,
\* num_comments 2, url = permalink = "http://x", the sentiment is positive
\* with score 0.5 over 2 words, has_url is false, engagement_ratio is 0.2 and
\* post_length_category is title_only.
C16_LoveThisScenario ==
  (Derived /\ IsLoveThis) =>
    /\ enr.processed_data.sentiment_category = "positive"
    /\ enr.processed_data.sentiment_score = [n |-> 1, d |-> 2]
    /\ enr.processed_data.word_count = 2
    /\ enr.processed_data.has_url = FALSE
    /\ enr.processed_data.engagement_ratio = [n |-> 1, d |-> 5]
    /\ enr.processed_data.post_length_category = "title_only"

\* C16 amended: the same scenario, with the score 1/3 over the 3 words of
\* "I love this".
C16_LoveThisScenarioThreeWords ==
  (Derived /\ IsLoveThis) =>
    /\ enr.processed_data.sentiment_category = "positive"
    /\ enr.processed_data.sentiment_score = [n |-> 1, d |-> 3]
    /\ Cardinality(WordStarts(SentimentText)) = 3
    /\ enr.processed_data.word_count = 3
    /\ enr.processed_data.has_url = FALSE
    /\ enr.processed_data.engagement_ratio = [n |-> 1, d |-> 5]
    /\ enr.processed_data.post_length_category = "title_only"

C16_Witness ==
  /\ enr.pc = "update"
  /\ IsLoveThis
  /\ s3[processed_key(enr.processed_data)].sentiment_category = "positive"

\* the tokens of the text the keywords are taken from
KeywordTokens ==
  findall_words(lower(enr.processed_data.title \o " " \o enr.processed_data.selftext))

\* how often a word is among the tokens, and where it is met first
TokenCount(tokens, w) == Cardinality({i \in 1..Len(tokens) : tokens[i] = w})

FirstMet(tokens, w) ==
  CHOOSE i \in 1..Len(tokens) : tokens[i] = w /\ \A j \in 1..(i - 1) : tokens[j] # w

\* C17: topic_keywords has at most 5 entries, each a token of the text that
\* is no stop word and is longer than 3, none twice, in the order of falling
\* frequency and, among tokens of one frequency, in the order first met.
C17_KeywordsOrdered ==
  Derived =>
    LET keywords == enr.processed_data.topic_keywords
        tokens == KeywordTokens
        count == [i \in 1..Len(keywords) |-> TokenCount(tokens, keywords[i])]
        first == [i \in 1..Len(keywords) |->
                    IF count[i] > 0 THEN FirstMet(tokens, keywords[i]) ELSE 0]
    IN /\ Len(keywords) <= 5
       /\ \A i \in 1..Len(keywords) :
            /\ count[i] > 0
            /\ keywords[i] \notin common_words
            /\ Len(keywords[i]) > 3
       /\ \A i, j \in 1..Len(keywords) :
            i < j =>
              /\ keywords[i] # keywords[j]
              /\ \/ count[i] > count[j]
                 \/ count[i] = count[j] /\ first[i] < first[j]

\* more than five candidates, one met three times, one twice and the rest
\* once: the ties are in the order met and the sixth candidate is dropped
C17_Witness ==
  /\ Derived
  /\ enr.processed_data.topic_keywords = <<"zeta", "beta", "alpha", "gamma", "delta">>
  /\ TokenCount(KeywordTokens, "zeta") = 3 /\ TokenCount(KeywordTokens, "beta") = 2
  /\ TokenCount(KeywordTokens, "epsilon") = 1 /\ TokenCount(KeywordTokens, "these") = 1


(***************************************************************************)
(* The processing handler's update of the table.                           *)
(***************************************************************************)
UpdatedAttributes ==
  {"processed", "sentiment_score", "sentiment_category", "word_count", "processed_at"}

\* update_dynamodb_record succeeds in this step
UpdateSucceeds ==
  /\ enr.pc = "update"
  /\ enr'.pc = "records"
  /\ enr'.processed_count = enr.processed_count + 1

C18_Step ==
  IF UpdateSucceeds
  THEN LET processed_data == enr.processed_data
           key == [post_id |-> processed_data.post_id,
                   timestamp |-> processed_data.timestamp \div TicksPerSecond]
       IN /\ DOMAIN table' = DOMAIN table \cup {key}
          /\ \A k \in DOMAIN table \ {key} : table'[k] = table[k]
          /\ UpdatedAttributes \subseteq DOMAIN table'[key]
          /\ table'[key].processed = TRUE
          /\ \A a \in UpdatedAttributes \ {"processed"} : table'[key][a] = processed_data[a]
          /\ key \in DOMAIN table =>
               /\ DOMAIN table'[key] = DOMAIN table[key] \cup UpdatedAttributes
               /\ \A a \in DOMAIN table[key] \ UpdatedAttributes :
                    table'[key][a] = table[key][a]
  ELSE table' = table

\* C18: the update of the item under (post_id, int(timestamp)) sets
\* processed, sentiment_score, sentiment_category, word_count and processed_at
\* and nothing else: the item's other attributes and the table's other items
\* are as before, and no other step of the handler changes the table.
C18_PartialUpdate == [][C18_Step]_vars

\* one of two items that ingestion put has been updated: it is marked and
\* has kept its title, the other is as it was
C18_Witness ==
  /\ enr.pc = "records"
  /\ hist.completed # {}
  /\ \E k1, k2 \in DOMAIN table :
       /\ k1 # k2
       /\ table[k1].processed /\ table[k1].title = "I love this"
       /\ table[k1].subreddit = "s1" /\ "sentiment_score" \in DOMAIN table[k1]
       /\ ~table[k2].processed /\ "sentiment_score" \notin DOMAIN table[k2]


(***************************************************************************)
(* The order of the processing handler's two writes.                       *)
(***************************************************************************)
\* the bucket holds a processed object of the post
HasProcessedBlob(post_id) ==
  \E sub \in Subreddits :
    LET key == "processed-data/" \o sub \o "/" \o post_id \o ".json"
    IN key \in DOMAIN s3 /\ s3[key].post_id = post_id /\ "processed_at" \in DOMAIN s3[key]

\* C19: whatever the interleaving of the two handlers and whichever storage
\* call fails, an item marked processed has its post's processed object in
\* the bucket: the object is written before the item is marked, and a failed
\* write of the object leaves the item unmarked.
C19_ProcessedImpliesBlob ==
  \A k \in DOMAIN table : table[k].processed => HasProcessedBlob(k.post_id)

\* an item of ingestion's marked by a second invocation of the processing
\* handler, its processed object under its own subreddit
C19_Witness ==
  /\ hist.enrich_invocations = 2
  /\ \E k \in DOMAIN table :
       /\ table[k].processed
       /\ "subreddit" \in DOMAIN table[k]
       /\ ("processed-data/" \o table[k].subreddit \o "/" \o k.post_id \o ".json")
             \in DOMAIN s3


(***************************************************************************)
(* The pipeline's progress.                                                *)
(***************************************************************************)
\* both handlers have returned and every notification has been delivered
Quiescent ==
  /\ ing.pc \in {"idle", "done"}
  /\ enr.pc \in {"idle", "done"}
  /\ hist.pending = {}

\* C20: when no storage call fails and every notification is delivered,
\* every item that ingestion puts is marked processed in the end, also when
\* the post is ingested again before its first notification is processed:
\* once both handlers have returned and no notification is outstanding, no
\* item of ingestion's is left unmarked.
C20_EveryRowProcessedInTheEnd ==
  Quiescent => \A k \in DOMAIN table : InsertedByIngestion(table[k]) => table[k].processed

=============================================================================
